---- MODULE Spec2Model ----
(***************************************************************************)
(* Model of the collection core of system-monitor-cli:                     *)
(*   internal/collector/collector.go  Collector.Collect, Collector.Start,  *)
(*                                    Collector.calculateNetworkRates      *)
(*   internal/monitor (part_000)      SystemMonitor.Start                  *)
(*   internal/stats/mock.go           MockStatsProvider                    *)
(*                                                                         *)
(* Numbers.  A float64 rate is kept as an exact fraction in lowest terms   *)
(* [num, den]; byte counters are unsigned integers of CounterMod values    *)
(* (the code's uint64, scaled down), so that subtraction wraps as it does  *)
(* in the code.  Time is an integer clock; time.Since(t) is now - t.       *)
(***************************************************************************)
EXTENDS Integers, Sequences, FiniteSets, TLC

\* ------------------------------------------------------------------ bounds
\* number of values of the unsigned counter type (2^64 in the code)
CounterMod == 4
\* last instant of the clock
MaxTime == 2
\* most Collect cycles one run of Collector.Start performs
MaxCollects == 3

VARIABLES
    prevNet,    \* Collector.prevNet   (a slice: nil or a sequence)
    prevTime,   \* Collector.prevTime
    now,        \* the clock read by time.Now() / time.Since()
    last,       \* record of the most recent Collect call (inputs and result)
    colPc,      \* Collector.Start: "idle","start","send","loop","exiting","done"
    monPc,      \* SystemMonitor.Start: "idle","recv","wait","done"
    out,        \* metricsChan: the buffered snapshots (capacity ChanCap)
    closed,     \* number of close(out) executed
    tick,       \* ticker.C holds a tick (capacity 1)
    cancelled,  \* ctx.Done() is closed
    pending,    \* the snapshot Start is about to send
    hist,       \* observations: counters of sends, collects, panics
    prov,       \* the native stats provider: its CPU baseline, its last results
    own,        \* who holds the storage of the network slices
    run,        \* runMonitor: its position, configuration, renderer and logger
    term        \* the TerminalRenderer and the line it formatted last

vars == <<prevNet, prevTime, now, last, colPc, monPc, out, closed, tick,
          cancelled, pending, hist, prov, own, run, term>>

\* ------------------------------------------------------------ go slices
\* A Go slice is nil or a sequence; nil and the empty slice both have len 0.
NilSlice == [nil |-> TRUE, elems |-> <<>>]

Slice(s) == [nil |-> FALSE, elems |-> s]

\* ------------------------------------------------------- float64 values
RECURSIVE GCD(_, _)
GCD(a, b) == IF b = 0 THEN a ELSE GCD(b, a % b)

\* float64 division n / d of two integer-valued floats, d > 0
Div(n, d) ==
    LET a == IF n < 0 THEN -n ELSE n
        g == GCD(a, d)
    IN  [num |-> n \div g, den |-> d \div g]

\* an integer-valued float64 literal
Float(n) == [num |-> n, den |-> 1]

IsNegative(f) == f.num < 0

IsZero(f) == f.num = 0

\* ------------------------------------------------------------ the models
\* models.NetworkStats
NetworkStats(iface, sent, recv, sendRate, recvRate) ==
    [Interface |-> iface, BytesSent |-> sent, BytesRecv |-> recv,
     SendRate |-> sendRate, RecvRate |-> recvRate]

\* zero values of the snapshot's fields (a fresh models.Metrics)
ZeroCPU == [Overall |-> 0, PerCore |-> <<>>]

ZeroMemory == [Total |-> 0, Used |-> 0, Available |-> 0, Percent |-> 0]

\* ------------------------------------------------------ the mock provider
\* NewMockStatsProvider's data; byte sizes are in GiB, rates in KiB/s
MockCPU == [Overall |-> 25, PerCore |-> <<20, 30, 25, 28>>]

MockMemory == [Total |-> 16, Used |-> 8, Available |-> 8, Percent |-> 50]

MockDisk ==
    Slice(<<[Mountpoint |-> "/", Total |-> 500, Used |-> 300,
             Available |-> 200, Percent |-> 60]>>)

\* the rates the mock puts in its NetworkStats: 100 KB/s and 200 KB/s
MockSendRate == Float(100)

MockRecvRate == Float(200)

\* A query returns (value, nil) or (zero, err)
Ok(v) == [err |-> FALSE, val |-> v]

Failed(zero) == [err |-> TRUE, val |-> zero]
\* ------------------------------------------------- what a provider returns
\* sample counter values: the least, and the greatest of the unsigned type
Counters == {0, CounterMod - 1}

\* the rates a provider puts in its entries: none (the native providers,
\* linux.go 256-257) or the mock's (mock.go 45-46)
ProviderRates == {<<Float(0), Float(0)>>, <<MockSendRate, MockRecvRate>>}

\* entries of the first interface: the two counters vary independently
Eth0Entries(p) ==
    {NetworkStats("eth0", s, r, p[1], p[2]) : s \in Counters, r \in Counters}

\* entries of the second interface: its counters move together
Eth1Entries(p) ==
    {NetworkStats("eth1", c, c, p[1], p[2]) : c \in Counters}

\* the enumerations of interfaces a query may return
NetSequences ==
    {<<>>}
    \cup UNION {{<<e>> : e \in Eth0Entries(p) \cup Eth1Entries(p)} :
                    p \in ProviderRates}
    \cup UNION {{<<a, b>> : a \in Eth0Entries(p), b \in Eth1Entries(p)} :
                    p \in ProviderRates}

\* GetNetworkStats: an error, a nil slice (no interface), or an enumeration
NetResults ==
    {Failed(NilSlice), Ok(NilSlice)} \cup {Ok(Slice(s)) : s \in NetSequences}

\* the mock's default NetStats (mock.go 40-48), counters in units of 100 MB
MockNet == Slice(<<NetworkStats("eth0", 1, 2, MockSendRate, MockRecvRate)>>)

\* the mock with its default data and each error flag set or not
\* (mock.go 52-82)
MockResults ==
    [cpu  : {Failed(ZeroCPU), Ok(MockCPU)},
     mem  : {Failed(ZeroMemory), Ok(MockMemory)},
     disk : {Failed(NilSlice), Ok(MockDisk)},
     net  : {Failed(NilSlice), Ok(MockNet)}]

\* a provider whose network counters vary from cycle to cycle
RateResults ==
    [cpu : {Ok(MockCPU)}, mem : {Ok(MockMemory)}, disk : {Ok(MockDisk)},
     net : NetResults]

\* the results of the four queries of one cycle
ProviderResults == MockResults \cup RateResults

\* ----------------------------------------------------------- the collector
\* prevMap[iface]: the last entry of prevNet with that interface name
PrevIndex(prev, iface) ==
    LET hits == {j \in 1..Len(prev) : prev[j].Interface = iface}
    IN  IF hits = {} THEN 0 ELSE CHOOSE j \in hits : \A k \in hits : k <= j

\* uint64 subtraction: wraps around
USub(a, b) == (a - b) % CounterMod

\* the clamp of a computed rate (collector.go 138-143)
Clamp(rate) == IF IsNegative(rate) THEN Float(0) ELSE rate

\* one entry as it would be if the counters were replaced by their deltas
RateEntryDeltas(prev, curr, timeDelta) ==
    LET j == PrevIndex(prev, curr.Interface)
    IN  IF j = 0 THEN curr
        ELSE [curr EXCEPT
                !.BytesSent = USub(curr.BytesSent, prev[j].BytesSent),
                !.BytesRecv = USub(curr.BytesRecv, prev[j].BytesRecv),
                !.SendRate = Clamp(Div(USub(curr.BytesSent, prev[j].BytesSent), timeDelta)),
                !.RecvRate = Clamp(Div(USub(curr.BytesRecv, prev[j].BytesRecv), timeDelta))]

\* one entry of the result (collector.go 127-144)
RateEntry(prev, curr, timeDelta) ==
    LET j == PrevIndex(prev, curr.Interface)
    IN  IF j = 0 THEN curr
        ELSE [curr EXCEPT
                !.SendRate = Clamp(Div(USub(curr.BytesSent, prev[j].BytesSent), timeDelta)),
                !.RecvRate = Clamp(Div(USub(curr.BytesRecv, prev[j].BytesRecv), timeDelta))]

\* time.Since(c.prevTime), read at instant sinceNow (collector.go 113)
TimeDelta(pTime, sinceNow) == sinceNow - pTime

\* Collector.calculateNetworkRates; current is a slice
calculateNetworkRates(pNet, pTime, sinceNow, current) ==
    IF pNet.nil \/ Len(pNet.elems) = 0 THEN current
    ELSE IF TimeDelta(pTime, sinceNow) = 0 THEN current
    ELSE Slice([i \in 1..Len(current.elems) |->
                  RateEntry(pNet.elems, current.elems[i], TimeDelta(pTime, sinceNow))])

\* the network branch as it would be if a failed query restarted the interval
CollectNetworkRestamp(pNet, pTime, ts, sinceNow, r) ==
    IF r.err
    THEN [Network |-> NilSlice, prevNet |-> pNet, prevTime |-> ts]
    ELSE LET net == IF ~pNet.nil
                    THEN calculateNetworkRates(pNet, pTime, sinceNow, r.val)
                    ELSE r.val
         IN  [Network |-> net, prevNet |-> net, prevTime |-> ts]

\* the Network field and the rate state after the network query
\* (collector.go 56-66)
CollectNetwork(pNet, pTime, ts, sinceNow, r) ==
    IF r.err
    THEN [Network |-> NilSlice, prevNet |-> pNet, prevTime |-> pTime]
    ELSE LET net == IF ~pNet.nil
                    THEN calculateNetworkRates(pNet, pTime, sinceNow, r.val)
                    ELSE r.val
         IN  [Network |-> net, prevNet |-> net, prevTime |-> ts]

\* the queries one Collect invokes, in order
CollectCalls(r) == <<"cpu", "mem", "disk", "net">>

\* Collect as it would be if a failed CPU query ended the cycle
CollectAbortOnError(pNet, pTime, ts, sinceNow, r) ==
    LET n == CollectNetwork(pNet, pTime, ts, sinceNow, r.net)
    IN  IF r.cpu.err
        THEN [metrics  |-> [Timestamp |-> ts, CPU |-> ZeroCPU, Memory |-> ZeroMemory,
                            Disk |-> NilSlice, Network |-> NilSlice],
              err |-> FALSE, calls |-> <<"cpu">>, prevNet |-> pNet, prevTime |-> pTime]
        ELSE [metrics  |-> [Timestamp |-> ts,
                            CPU       |-> r.cpu.val,
                            Memory    |-> IF r.mem.err THEN ZeroMemory ELSE r.mem.val,
                            Disk      |-> IF r.disk.err THEN NilSlice ELSE r.disk.val,
                            Network   |-> n.Network],
              err |-> FALSE, calls |-> CollectCalls(r),
              prevNet |-> n.prevNet, prevTime |-> n.prevTime]

\* Collector.Collect: ts is the time.Now() of line 31, sinceNow the clock
\* when line 113 reads it, r the results of the four queries
Collect(pNet, pTime, ts, sinceNow, r) ==
    LET n == CollectNetwork(pNet, pTime, ts, sinceNow, r.net)
    IN  [metrics  |-> [Timestamp |-> ts,
                       CPU       |-> IF r.cpu.err THEN ZeroCPU ELSE r.cpu.val,
                       Memory    |-> IF r.mem.err THEN ZeroMemory ELSE r.mem.val,
                       Disk      |-> IF r.disk.err THEN NilSlice ELSE r.disk.val,
                       Network   |-> n.Network],
         err      |-> FALSE,
         calls    |-> CollectCalls(r),
         prevNet  |-> n.prevNet,
         prevTime |-> n.prevTime]
\* ------------------------------------------------------------------ state
\* the time one Collect may take between its two clock readings
Elapse == {0, 1}

NoCall ==
    [called |-> FALSE, hadNet |-> FALSE, inp |-> [cpu |-> Failed(ZeroCPU), mem |-> Failed(ZeroMemory),
                                disk |-> Failed(NilSlice), net |-> Failed(NilSlice)],
     prev |-> NilSlice, pTime |-> 0, sinceNow |-> 0,
     res |-> [metrics |-> [Timestamp |-> 0, CPU |-> ZeroCPU, Memory |-> ZeroMemory,
                           Disk |-> NilSlice, Network |-> NilSlice],
              err |-> FALSE, calls |-> <<>>]]

\* fired counts the ticks the ticker delivered; inChan numbers the snapshots
\* in the channel by the Collect that made them; recvs, recvN, recvTs and
\* prevTs are the count of receives, the number and Timestamp of the last
\* snapshot received and the Timestamp of the one before
NoHist == [collects |-> 0, sends |-> 0, sendsAfterCancel |-> 0,
           collectsAfterCancel |-> 0, sendOnClosed |-> FALSE, closer |-> "none",
           exitAt |-> "none", eos |-> FALSE,
           fired |-> 0, inChan |-> <<>>, recvs |-> 0, recvN |-> 0,
           recvTs |-> -1, prevTs |-> -1]

\* what a later cycle reads of a network sample: names and counters
Counts(net) ==
    [nil |-> net.nil,
     elems |-> [i \in 1..Len(net.elems) |->
                  [Interface |-> net.elems[i].Interface,
                   BytesSent |-> net.elems[i].BytesSent,
                   BytesRecv |-> net.elems[i].BytesRecv]]]

\* the stats provider and the storage bookkeeping before any call
NoProvider ==
    [os |-> "none", prevCPUTimes |-> NilSlice, called |-> "none",
     base |-> NilSlice, inp |-> <<>>, res |-> <<>>]

\* Storage is named by the order of its allocation, 0 naming none: made is
\* the count of allocations, provAt the slice a provider keeps and returns
\* at every call, prevAt the backing array of c.prevNet, snap the latest
\* snapshot (its struct and the backing array of its Network), heldSnaps and
\* heldNets the storage of the snapshots handed to the consumer, read the
\* array the latest rate computation read, clobbered the handed storage a
\* Collect wrote to, wroteAt the array the consumer last wrote to.
NoOwner ==
    [shared |-> FALSE, made |-> 0, provAt |-> 0, prevAt |-> 0,
     snap |-> [at |-> 0, net |-> 0], handed |-> TRUE,
     heldSnaps |-> {}, heldNets |-> {}, read |-> 0, clobbered |-> {},
     wroteAt |-> 0, tampered |-> FALSE, collects |-> 0]

\* runMonitor not called
NoRun == [pc |-> "none"]

\* no TerminalRenderer constructed
NoRenderer == [useANSI |-> FALSE, thresholds |-> <<>>, line |-> <<>>]

\* NewCollector (collector.go 19-24): prevNet nil, prevTime = time.Now()
InitCollector ==
    /\ prevNet = NilSlice
    /\ prevTime = 0
    /\ now = 0
    /\ last = NoCall

\* a caller invokes Collect directly; no Start is running
InitCollect ==
    /\ InitCollector
    /\ colPc = "idle"
    /\ monPc = "idle"
    /\ out = <<>>
    /\ closed = 0
    /\ tick = FALSE
    /\ cancelled = FALSE
    /\ pending = NoCall.res.metrics
    /\ hist = NoHist
    /\ prov = NoProvider
    /\ own = NoOwner
    /\ run = NoRun
    /\ term = NoRenderer

\* the effect of one call of Collector.Collect on the collector and the clock:
\* the queries return r, and d passes between the two clock readings
DoCollect(r, d) ==
    LET res == Collect(prevNet, prevTime, now, now + d, r)
    IN  /\ now + d <= MaxTime
        /\ prevNet' = res.prevNet
        /\ prevTime' = res.prevTime
        /\ now' = now + d
        /\ last' = [called |-> TRUE,
                    hadNet |-> last.hadNet \/ (last.called /\ ~last.inp.net.err),
                    inp |-> r, prev |-> Counts(prevNet), pTime |-> prevTime,
                    sinceNow |-> now + d,
                    res |-> [metrics |-> res.metrics, err |-> res.err,
                             calls |-> res.calls]]

\* Collector.Collect called by its owner
CollectCall ==
    /\ colPc = "idle"
    /\ \E r \in ProviderResults, d \in Elapse : DoCollect(r, d)
    /\ UNCHANGED <<colPc, monPc, out, closed, tick, cancelled, pending, hist,
                   prov, own, run, term>>

\* time passes
ClockAdvance ==
    /\ now < MaxTime
    /\ now' = now + 1
    /\ UNCHANGED <<prevNet, prevTime, last, colPc, monPc, out, closed, tick,
                   cancelled, pending, hist,
                   prov, own, run, term>>

NextCollect == CollectCall \/ ClockAdvance

SpecCollect == InitCollect /\ [][NextCollect]_vars
\* ------------------------------------------------- the periodic collection
\* capacity of metricsChan (make(chan *models.Metrics, 1))
ChanCap == 1

\* the provider of a running monitor: the mock's data, the network query
\* failing or not
LoopResults ==
    [cpu : {Ok(MockCPU)}, mem : {Ok(MockMemory)}, disk : {Ok(MockDisk)},
     net : {Failed(NilSlice), Ok(MockNet)}]

\* SystemMonitor.Start has made the channel and launched Collector.Start
Init ==
    /\ InitCollector
    /\ colPc = "start"
    /\ monPc = "recv"
    /\ out = <<>>
    /\ closed = 0
    /\ tick = FALSE
    /\ cancelled = FALSE
    /\ pending = NoCall.res.metrics
    /\ hist = NoHist
    /\ prov = NoProvider
    /\ own = NoOwner
    /\ run = NoRun
    /\ term = NoRenderer

\* one more Collect begun by Start; those the loop begins after the
\* cancellation are counted apart
Collected(inLoop) ==
    [hist EXCEPT !.collects = @ + 1,
                 !.collectsAfterCancel = IF inLoop /\ cancelled THEN @ + 1 ELSE @]

\* where Start goes with Collect's result: to the send when err == nil
AfterCollect(err) == IF err THEN "loop" ELSE "send"

\* Start, lines 78-79: the initial Collect, before any tick
StartCollect ==
    /\ colPc = "start"
    /\ \E r \in LoopResults, d \in Elapse : DoCollect(r, d)
    /\ pending' = last'.res.metrics
    /\ colPc' = AfterCollect(last'.res.err)
    /\ hist' = Collected(FALSE)
    /\ UNCHANGED <<monPc, out, closed, tick, cancelled,
                   prov, own, run, term>>

\* the send as a non-blocking one: a snapshot finding the channel full is
\* discarded
SendOrDrop ==
    /\ colPc = "send"
    /\ out' = IF Len(out) < ChanCap THEN Append(out, pending) ELSE out
    /\ colPc' = "loop"
    /\ hist' = IF Len(out) < ChanCap
               THEN [hist EXCEPT !.sends = @ + 1,
                                 !.inChan = Append(@, hist.collects)]
               ELSE hist
    /\ UNCHANGED <<prevNet, prevTime, now, last, monPc, closed, tick, cancelled,
                   pending, prov, own, run, term>>

\* Start, lines 81 and 99: the send case of the select is chosen; pending is
\* the snapshot of the latest Collect
SendSnapshot ==
    /\ colPc = "send"
    /\ Len(out) < ChanCap
    /\ out' = Append(out, pending)
    /\ colPc' = "loop"
    /\ hist' = [hist EXCEPT !.sends = @ + 1,
                            !.sendsAfterCancel = IF cancelled THEN @ + 1 ELSE @,
                            !.sendOnClosed = @ \/ closed > 0,
                            !.inChan = Append(@, hist.collects)]
    /\ UNCHANGED <<prevNet, prevTime, now, last, monPc, closed, tick, cancelled,
                   pending,
                   prov, own, run, term>>

\* return ctx.Err(): the deferred close(out) runs, the first of the
\* deferred calls (they run last-registered first)
Return(at) ==
    /\ colPc' = "exiting"
    /\ closed' = closed + 1
    /\ hist' = [hist EXCEPT !.closer = "collector", !.exitAt = at]
    /\ UNCHANGED <<prevNet, prevTime, now, last, monPc, out, cancelled, pending,
                   tick, prov, own, run, term>>

\* the deferred ticker.Stop() runs, Start returns to the goroutine of
\* SystemMonitor.Start (part_000 44-47) and its deferred m.wg.Done() runs
GoroutineExit ==
    /\ colPc = "exiting"
    /\ colPc' = "done"
    /\ tick' = FALSE
    /\ UNCHANGED <<prevNet, prevTime, now, last, monPc, out, closed, cancelled,
                   pending, hist, prov, own, run, term>>

\* the send's select without a ctx.Done() case: a plain out <- metrics
SendWithoutCancelCase == FALSE /\ Return("send")

\* Start, lines 82-83 and 100-101: the ctx.Done() case of the send's select
SendCancelled ==
    /\ colPc = "send"
    /\ cancelled
    /\ Return(IF Len(out) = ChanCap THEN "sendFull" ELSE "send")

\* the ctx.Done() case closing the channel and staying in the loop
LoopCloseWithoutReturn ==
    /\ colPc = "loop"
    /\ cancelled
    /\ closed' = closed + 1
    /\ hist' = [hist EXCEPT !.closer = "collector"]
    /\ UNCHANGED <<prevNet, prevTime, now, last, colPc, monPc, out, tick, cancelled,
                   pending,
                   prov, own, run, term>>

\* Start, lines 89-90: the ctx.Done() case of the loop's select
LoopCancelled ==
    /\ colPc = "loop"
    /\ cancelled
    /\ Return("loop")

\* the tick case as it would be if the tick stayed in ticker.C
LoopTickKeepsTick ==
    /\ colPc = "loop"
    /\ tick
    /\ hist.collects < MaxCollects
    /\ \E r \in LoopResults, d \in Elapse : DoCollect(r, d)
    /\ pending' = last'.res.metrics
    /\ colPc' = AfterCollect(last'.res.err)
    /\ hist' = Collected(TRUE)
    /\ UNCHANGED <<monPc, out, closed, cancelled, tick, prov, own, run, term>>

\* Start, lines 91-96: the tick case of the loop's select, and the Collect
LoopTick ==
    /\ colPc = "loop"
    /\ tick
    /\ hist.collects < MaxCollects
    /\ tick' = FALSE
    /\ \E r \in LoopResults, d \in Elapse : DoCollect(r, d)
    /\ pending' = last'.res.metrics
    /\ colPc' = AfterCollect(last'.res.err)
    /\ hist' = Collected(TRUE)
    /\ UNCHANGED <<monPc, out, closed, cancelled,
                   prov, own, run, term>>

\* the ticker of line 74 delivers a tick; ticker.C holds at most one
TickerFire ==
    /\ colPc \in {"start", "send", "loop", "exiting"}
    /\ ~tick
    /\ tick' = TRUE
    /\ hist' = [hist EXCEPT !.fired = @ + 1]
    /\ UNCHANGED <<prevNet, prevTime, now, last, colPc, monPc, out, closed,
                   cancelled, pending, prov, own, run, term>>

\* cancel() of the context (root.go 151, on SIGINT/SIGTERM)
Cancel ==
    /\ ~cancelled
    /\ cancelled' = TRUE
    /\ UNCHANGED <<prevNet, prevTime, now, last, colPc, monPc, out, closed, tick,
                   pending, hist,
                   prov, own, run, term>>

\* the receive as it would be if it left the snapshot in the channel
MonReceivePeek ==
    /\ monPc = "recv"
    /\ Len(out) > 0
    /\ hist.recvs < MaxCollects
    /\ hist' = [hist EXCEPT !.recvs = @ + 1,
                            !.recvN = Head(hist.inChan),
                            !.recvTs = Head(out).Timestamp,
                            !.prevTs = hist.recvTs]
    /\ UNCHANGED <<prevNet, prevTime, now, last, colPc, monPc, out, closed, tick,
                   cancelled, pending, prov, own, run, term>>

\* SystemMonitor.Start, lines 56-77: a snapshot is received, rendered, logged
MonReceive ==
    /\ monPc = "recv"
    /\ Len(out) > 0
    /\ out' = Tail(out)
    /\ hist' = [hist EXCEPT !.inChan = Tail(@),
                            !.recvs = @ + 1,
                            !.recvN = Head(hist.inChan),
                            !.recvTs = Head(out).Timestamp,
                            !.prevTs = hist.recvTs]
    /\ UNCHANGED <<prevNet, prevTime, now, last, colPc, monPc, closed, tick,
                   cancelled, pending, prov, own, run, term>>

\* SystemMonitor.Start, lines 56-60: the receive finds the channel closed
MonReceiveClosed ==
    /\ monPc = "recv"
    /\ out = <<>>
    /\ closed > 0
    /\ monPc' = "done"
    /\ hist' = [hist EXCEPT !.eos = TRUE]
    /\ UNCHANGED <<prevNet, prevTime, now, last, colPc, out, closed, tick,
                   cancelled, pending,
                   prov, own, run, term>>

\* SystemMonitor.Start, lines 52-54: the ctx.Done() case; m.wg.Wait() begins
MonCancelled ==
    /\ monPc = "recv"
    /\ cancelled
    /\ monPc' = "wait"
    /\ UNCHANGED <<prevNet, prevTime, now, last, colPc, out, closed, tick,
                   cancelled, pending, hist,
                   prov, own, run, term>>

\* SystemMonitor.Start, lines 54-55: m.wg.Wait() returns, Start returns
MonWaitDone ==
    /\ monPc = "wait"
    /\ colPc = "done"
    /\ monPc' = "done"
    /\ UNCHANGED <<prevNet, prevTime, now, last, colPc, out, closed, tick,
                   cancelled, pending, hist,
                   prov, own, run, term>>

CollectorNext ==
    \/ StartCollect \/ SendSnapshot \/ SendCancelled \/ LoopCancelled \/ LoopTick
    \/ GoroutineExit

MonitorNext == MonReceive \/ MonReceiveClosed \/ MonCancelled \/ MonWaitDone

Next == CollectorNext \/ MonitorNext \/ TickerFire \/ Cancel \/ ClockAdvance

Spec == Init /\ [][Next]_vars

\* The goroutine running Collector.Start is scheduled while it can step, and
\* a select chooses uniformly at random among its ready cases, so a case
\* ready again and again is chosen.
LiveSpec ==
    /\ Spec
    /\ WF_vars(CollectorNext)
    /\ SF_vars(SendCancelled)
    /\ SF_vars(LoopCancelled)

\* LiveSpec where the goroutine of SystemMonitor.Start is scheduled too
LiveStartSpec == LiveSpec /\ WF_vars(MonitorNext)
\* ================================================= the native providers
\* The counters are uint64 in the code; the model keeps them modulo TickMod
\* and draws readings small enough that only a subtraction can wrap.
TickMod == 8

MaxTicks == 2

MaxBlocks == 2

\* uint64 subtraction and addition
TSub(a, b) == (a - b) % TickMod

TAdd(a, b) == (a + b) % TickMod

\* models.CalculatePercentage as it would be without the factor 100
CalculateFraction(used, total) ==
    IF total = 0 THEN Float(0) ELSE Div(used, total)

\* models.CalculatePercentage
CalculatePercentage(used, total) ==
    IF total = 0 THEN Float(0) ELSE Div(used * 100, total)

\* models.CPUStats, models.MemoryStats, models.DiskStats
CPUStats(overall, perCore) == [Overall |-> overall, PerCore |-> perCore]

MemoryStats(total, used, available) ==
    [Total |-> total, Used |-> used, Available |-> available,
     Percent |-> CalculatePercentage(used, total)]

DiskStats(mountpoint, total, used, available) ==
    [Mountpoint |-> mountpoint, Total |-> total, Used |-> used,
     Available |-> available, Percent |-> CalculatePercentage(used, total)]

\* ---------------------------------------------------------------- CPU
\* one "cpu" line of /proc/stat (linux.go cpuTime)
LinuxTime(user, idle, iowait) ==
    [user |-> user, nice |-> 0, system |-> 0, idle |-> idle, iowait |-> iowait,
     irq |-> 0, softirq |-> 0]

LinuxCoreTimes ==
    {LinuxTime(u, i, w) : u \in 0..MaxTicks, i \in 0..1, w \in 0..1}

\* the aggregate line of two cores
SumTimes(a, b) ==
    LinuxTime(a.user + b.user, a.idle + b.idle, a.iowait + b.iowait)

\* the cpu lines of one reading of /proc/stat: the aggregate, then the cores
LinuxReadings ==
    {<<c, c>> : c \in LinuxCoreTimes}
      \cup {<<SumTimes(c, LinuxTime(1, 1, 0)), c, LinuxTime(1, 1, 0)>> :
              c \in LinuxCoreTimes}

\* os.Open("/proc/stat") fails, or the lines are read
ProcStat == {Failed(NilSlice)} \cup {Ok(Slice(r)) : r \in LinuxReadings}

\* linux.go calculateCPUPercent
calculateCPUPercentLinux(prev, curr) ==
    LET prevTotal == prev.user + prev.nice + prev.system + prev.idle
                       + prev.iowait + prev.irq + prev.softirq
        currTotal == curr.user + curr.nice + curr.system + curr.idle
                       + curr.iowait + curr.irq + curr.softirq
        prevIdle == prev.idle + prev.iowait
        currIdle == curr.idle + curr.iowait
        totalDelta == TSub(currTotal, prevTotal)
        idleDelta == TSub(currIdle, prevIdle)
    IN  IF totalDelta = 0 THEN Float(0)
        ELSE Div(TSub(totalDelta, idleDelta) * 100, totalDelta)

\* GetCPUStats as it would be if the first call failed for want of a baseline
LinuxGetCPUStatsNeedsBaseline(prevCPU, stat) ==
    IF stat.err \/ Len(stat.val.elems) = 0 \/ prevCPU.nil
    THEN [res |-> Failed(ZeroCPU), prevCPUTimes |-> prevCPU]
    ELSE [res |-> Ok(CPUStats(Float(0), <<>>)), prevCPUTimes |-> stat.val]

\* LinuxStatsProvider.GetCPUStats: the result and the new baseline
LinuxGetCPUStats(prevCPU, stat) ==
    IF stat.err \/ Len(stat.val.elems) = 0
    THEN [res |-> Failed(ZeroCPU), prevCPUTimes |-> prevCPU]
    ELSE LET cur == stat.val.elems
             n == Len(cur)
             c == IF ~prevCPU.nil /\ Len(prevCPU.elems) = n
                  THEN CPUStats(calculateCPUPercentLinux(prevCPU.elems[1], cur[1]),
                                [i \in 1..(n - 1) |->
                                   calculateCPUPercentLinux(prevCPU.elems[i + 1],
                                                            cur[i + 1])])
                  ELSE CPUStats(Float(0), [i \in 1..(n - 1) |-> Float(0)])
         IN  [res |-> Ok(c), prevCPUTimes |-> stat.val]

\* darwin.go cpuTime, as sysctlCPUTimes("kern.cp_time") fills it
DarwinTime(user, idle) == [user |-> user, system |-> 0, idle |-> idle, nice |-> 0]

\* hw.ncpu and kern.cp_time as read, or a failing sysctl
SysctlCPU ==
    {Failed([ncpu |-> 0, times |-> DarwinTime(0, 0)])}
      \cup {Ok([ncpu |-> n, times |-> DarwinTime(u, i)]) :
              n \in 1..2, u \in 0..MaxTicks, i \in 0..1}

\* darwin.go calculateCPUPercent
calculateCPUPercentDarwin(prev, curr) ==
    LET prevTotal == prev.user + prev.system + prev.idle + prev.nice
        currTotal == curr.user + curr.system + curr.idle + curr.nice
        totalDelta == TSub(currTotal, prevTotal)
        idleDelta == TSub(curr.idle, prev.idle)
    IN  IF totalDelta = 0 THEN Float(0)
        ELSE Div(TSub(totalDelta, idleDelta) * 100, totalDelta)

\* DarwinStatsProvider.GetCPUStats
DarwinGetCPUStats(prevCPU, ctl) ==
    IF ctl.err
    THEN [res |-> Failed(ZeroCPU), prevCPUTimes |-> prevCPU]
    ELSE LET overall == IF ~prevCPU.nil /\ Len(prevCPU.elems) > 0
                        THEN calculateCPUPercentDarwin(prevCPU.elems[1], ctl.val.times)
                        ELSE Float(0)
         IN  [res |-> Ok(CPUStats(overall, [i \in 1..ctl.val.ncpu |-> overall])),
              prevCPUTimes |-> Slice(<<ctl.val.times>>)]

\* ------------------------------------------------------------- memory
\* the fields GetMemoryStats reads from /proc/meminfo, as the kernel
\* reports them: every category within MemTotal
MemInfo ==
    {Failed([memTotal |-> 0, memFree |-> 0, memAvailable |-> 0, buffers |-> 0,
             cached |-> 0])}
      \cup {Ok([memTotal |-> t, memFree |-> f, memAvailable |-> a, buffers |-> b,
                cached |-> c]) :
              t \in 0..MaxBlocks, f \in 0..1, a \in 0..MaxBlocks, b \in 0..1,
              c \in 0..1}

MemInfoValid == {m \in MemInfo :
                   m.err \/ (/\ m.val.memAvailable <= m.val.memTotal
                             /\ m.val.memFree + m.val.buffers + m.val.cached
                                  <= m.val.memTotal)}

\* LinuxStatsProvider.GetMemoryStats
LinuxGetMemoryStats(info) ==
    IF info.err THEN Failed(ZeroMemory)
    ELSE LET m == info.val
             available == IF m.memAvailable = 0
                          THEN TAdd(TAdd(m.memFree, m.buffers), m.cached)
                          ELSE m.memAvailable
             used == TSub(m.memTotal, available)
         IN  Ok(MemoryStats(m.memTotal, used, available))

\* getVMStat's page counts, in thousands of pages (darwin.go 260-265)
VMFree == 1

VMActive == 5

VMInactive == 2

VMWired == 3

\* hw.memsize, in thousands of pages: at least the pages in use
MemSizes ==
    {Failed(0)} \cup {Ok(s) : s \in (VMActive + VMWired)..(VMActive + VMWired + VMInactive + VMFree + 1)}

\* DarwinStatsProvider.GetMemoryStats
DarwinGetMemoryStats(memSize) ==
    IF memSize.err THEN Failed(ZeroMemory)
    ELSE LET used == VMActive + VMWired
             available == VMFree + VMInactive
         IN  Ok(MemoryStats(memSize.val, used, available))

\* --------------------------------------------------------------- disks
\* what statfs reports of one filesystem (Bavail <= Bfree <= Blocks), or
\* its failure
Statfs ==
    {Failed([Blocks |-> 0, Bfree |-> 0, Bavail |-> 0, Bsize |-> 1])}
      \cup {Ok([Blocks |-> b, Bfree |-> f, Bavail |-> a, Bsize |-> 1]) :
              b \in {0, MaxBlocks}, f \in {0, 1}, a \in {0, 1}}

StatfsValid ==
    {st \in Statfs : st.err \/ (st.val.Bavail <= st.val.Bfree /\ st.val.Bfree <= st.val.Blocks)}

\* the DiskStats both providers build from one statfs result
StatDisk(mountpoint, stat) ==
    LET total == stat.Blocks * stat.Bsize
        available == stat.Bavail * stat.Bsize
        used == TSub(total, stat.Bfree * stat.Bsize)
    IN  DiskStats(mountpoint, total, used, available)

\* the lines of /proc/mounts with what statfs says of each mountpoint
MountEntries ==
    [mountpoint : {"/", "/home"}, fstype : {"ext4", "tmpfs"}, stat : StatfsValid]

Mounts ==
    {<<>>} \cup {<<e>> : e \in MountEntries}
      \cup {<<e, f>> : e \in MountEntries,
                       f \in {g \in MountEntries : ~g.stat.err /\ g.stat.val.Bfree = 1}}

\* the filesystem types GetDiskStats skips
SkippedFS == {"tmpfs", "devtmpfs", "proc", "sysfs", "cgroup", "devpts"}

\* the loop of LinuxStatsProvider.GetDiskStats over the lines from the k-th on
RECURSIVE LinuxDiskLoop(_, _, _)
LinuxDiskLoop(mounts, k, seen) ==
    IF k > Len(mounts) THEN <<>>
    ELSE LET e == mounts[k]
         IN  IF e.fstype \in SkippedFS \/ e.mountpoint \in seen
             THEN LinuxDiskLoop(mounts, k + 1, seen)
             ELSE IF e.stat.err
                  THEN LinuxDiskLoop(mounts, k + 1, seen \cup {e.mountpoint})
                  ELSE <<StatDisk(e.mountpoint, e.stat.val)>>
                         \o LinuxDiskLoop(mounts, k + 1, seen \cup {e.mountpoint})

\* LinuxStatsProvider.GetDiskStats: a slice, nil when nothing was appended
LinuxGetDiskStats(mounts) ==
    LET ds == LinuxDiskLoop(mounts, 1, {})
    IN  Ok(IF Len(ds) = 0 THEN NilSlice ELSE Slice(ds))

\* the two mountpoints DarwinStatsProvider.GetDiskStats asks about
DarwinMountpoints == <<"/", "/System/Volumes/Data">>

DarwinStatfs == [1..2 -> StatfsValid]

\* DarwinStatsProvider.GetDiskStats
DarwinGetDiskStats(stats) ==
    LET one(i) == IF stats[i].err THEN <<>>
                  ELSE <<StatDisk(DarwinMountpoints[i], stats[i].val)>>
        ds == one(1) \o one(2)
    IN  IF Len(ds) = 0 THEN Failed(NilSlice) ELSE Ok(Slice(ds))

\* ------------------------------------------------------------- network
\* a line of /proc/net/dev after the two header lines: an interface with
\* its counters, or a line GetNetworkStats cannot split (wellFormed FALSE)
NetDevLines ==
    [iface : {"lo", "eth0"}, wellFormed : {TRUE}, bytes : {0, 1}]
      \cup [iface : {"eth0"}, wellFormed : {FALSE}, bytes : {0}]

\* /proc/net/dev as read, or os.Open failing
NetDev ==
    {Failed(<<>>)} \cup {Ok(<<>>)} \cup {Ok(<<l>>) : l \in NetDevLines}
      \cup {Ok(<<l, k>>) : l \in NetDevLines, k \in NetDevLines}

\* the loop of LinuxStatsProvider.GetNetworkStats over the lines from the
\* k-th on
RECURSIVE LinuxNetLoop(_, _)
LinuxNetLoop(lines, k) ==
    IF k > Len(lines) THEN <<>>
    ELSE IF ~lines[k].wellFormed \/ lines[k].iface = "lo"
         THEN LinuxNetLoop(lines, k + 1)
         ELSE <<NetworkStats(lines[k].iface, lines[k].bytes, lines[k].bytes,
                             Float(0), Float(0))>>
                \o LinuxNetLoop(lines, k + 1)

\* LinuxStatsProvider.GetNetworkStats: a slice, nil when nothing was appended
LinuxGetNetworkStats(dev) ==
    IF dev.err THEN Failed(NilSlice)
    ELSE LET ns == LinuxNetLoop(dev.val, 1)
         IN  Ok(IF Len(ns) = 0 THEN NilSlice ELSE Slice(ns))

\* DarwinStatsProvider.GetNetworkStats: an empty slice
DarwinGetNetworkStats == Ok(Slice(<<>>))

\* ---------------------------------------------------- calls of a provider
\* NewLinuxStatsProvider / NewDarwinStatsProvider: no baseline
InitStats ==
    /\ InitCollector
    /\ colPc = "idle"
    /\ monPc = "idle"
    /\ out = <<>>
    /\ closed = 0
    /\ tick = FALSE
    /\ cancelled = FALSE
    /\ pending = NoCall.res.metrics
    /\ hist = NoHist
    /\ own = NoOwner
    /\ run = NoRun
    /\ term = NoRenderer
    /\ prov \in {[NoProvider EXCEPT !.os = o] : o \in {"linux", "darwin"}}

\* a call leaves its input, the baseline it found and its result in prov
Called(name, inp, res, prevCPU) ==
    [os |-> prov.os, prevCPUTimes |-> prevCPU, called |-> name,
     base |-> prov.prevCPUTimes, inp |-> inp, res |-> res]

OnlyProvider ==
    UNCHANGED <<prevNet, prevTime, now, last, colPc, monPc, out, closed, tick,
                cancelled, pending, hist, own, run, term>>

GetCPUStatsLinux ==
    /\ prov.os = "linux"
    /\ \E stat \in ProcStat :
         LET r == LinuxGetCPUStats(prov.prevCPUTimes, stat)
         IN  prov' = Called("cpu", stat, r.res, r.prevCPUTimes)
    /\ OnlyProvider

GetCPUStatsDarwin ==
    /\ prov.os = "darwin"
    /\ \E ctl \in SysctlCPU :
         LET r == DarwinGetCPUStats(prov.prevCPUTimes, ctl)
         IN  prov' = Called("cpu", ctl, r.res, r.prevCPUTimes)
    /\ OnlyProvider

GetMemoryStatsLinux ==
    /\ prov.os = "linux"
    /\ \E info \in MemInfoValid :
         prov' = Called("mem", info, LinuxGetMemoryStats(info), prov.prevCPUTimes)
    /\ OnlyProvider

GetMemoryStatsDarwin ==
    /\ prov.os = "darwin"
    /\ \E size \in MemSizes :
         prov' = Called("mem", size, DarwinGetMemoryStats(size), prov.prevCPUTimes)
    /\ OnlyProvider

GetDiskStatsLinux ==
    /\ prov.os = "linux"
    /\ \E mounts \in Mounts :
         prov' = Called("disk", mounts, LinuxGetDiskStats(mounts), prov.prevCPUTimes)
    /\ OnlyProvider

GetDiskStatsDarwin ==
    /\ prov.os = "darwin"
    /\ \E stats \in DarwinStatfs :
         prov' = Called("disk", stats, DarwinGetDiskStats(stats), prov.prevCPUTimes)
    /\ OnlyProvider

GetNetworkStatsLinux ==
    /\ prov.os = "linux"
    /\ \E dev \in NetDev :
         prov' = Called("net", dev, LinuxGetNetworkStats(dev), prov.prevCPUTimes)
    /\ OnlyProvider

GetNetworkStatsDarwin ==
    /\ prov.os = "darwin"
    /\ prov' = Called("net", <<>>, DarwinGetNetworkStats, prov.prevCPUTimes)
    /\ OnlyProvider

\* models.CalculatePercentage called with any used and total
Percentage ==
    /\ \E used \in 0..(MaxBlocks + 1), total \in 0..(MaxBlocks + 1) :
         prov' = Called("percentage", [used |-> used, total |-> total],
                        CalculatePercentage(used, total), prov.prevCPUTimes)
    /\ OnlyProvider

NextStats ==
    \/ GetCPUStatsLinux \/ GetCPUStatsDarwin
    \/ GetMemoryStatsLinux \/ GetMemoryStatsDarwin
    \/ GetDiskStatsLinux \/ GetDiskStatsDarwin
    \/ GetNetworkStatsLinux \/ GetNetworkStatsDarwin
    \/ Percentage

SpecStats == InitStats /\ [][NextStats]_vars
\* ====================================== the storage behind the snapshots
\* a slice of length 0 has no element to share
At(slice, a) == IF Len(slice.elems) = 0 THEN 0 ELSE a

\* the backing array of the slice calculateNetworkRates returns: current's
\* on the early returns (collector.go 109-116), else the one made at line 125
RatesAt(pNet, pTime, sinceNow, current, curAt, freshAt) ==
    IF pNet.nil \/ Len(pNet.elems) = 0 THEN curAt
    ELSE IF TimeDelta(pTime, sinceNow) = 0 THEN curAt
    ELSE freshAt

\* the rate computation as it would be if it updated the previous sample in
\* place
RatesWritesInPlace(pNet, pTime, sinceNow, current, pAt, freshAt) ==
    IF pNet.nil \/ Len(pNet.elems) = 0 THEN {}
    ELSE IF TimeDelta(pTime, sinceNow) = 0 THEN {}
    ELSE {pAt}

\* the arrays calculateNetworkRates writes to: result[i] = curr and the two
\* rates of result[i] (collector.go 127-144); prevNet is only read
RatesWrites(pNet, pTime, sinceNow, current, pAt, freshAt) ==
    IF pNet.nil \/ Len(pNet.elems) = 0 THEN {}
    ELSE IF TimeDelta(pTime, sinceNow) = 0 THEN {}
    ELSE IF Len(current.elems) = 0 THEN {} ELSE {freshAt}

\* the array calculateNetworkRates reads the previous sample from
RatesReads(pNet, pTime, sinceNow, pAt) ==
    IF pNet.nil \/ Len(pNet.elems) = 0 THEN 0
    ELSE IF TimeDelta(pTime, sinceNow) = 0 THEN 0
    ELSE pAt

\* a provider that keeps one slice and returns it at every call (the mock,
\* mock.go 77-82) or builds a new slice at every call (linux.go 227-265)
OwnResults(shared) ==
    [cpu : {Ok(MockCPU)}, mem : {Ok(MockMemory)}, disk : {Ok(MockDisk)},
     net : IF shared THEN {Failed(NilSlice), Ok(MockNet)}
           ELSE {Failed(NilSlice), Ok(NilSlice)}
                  \cup {Ok(Slice(<<NetworkStats("eth0", c, c, Float(0), Float(0))>>)) :
                          c \in Counters}]

InitOwn ==
    /\ InitCollector
    /\ colPc = "idle"
    /\ monPc = "idle"
    /\ out = <<>>
    /\ closed = 0
    /\ tick = FALSE
    /\ cancelled = FALSE
    /\ pending = NoCall.res.metrics
    /\ hist = NoHist
    /\ prov = NoProvider
    /\ run = NoRun
    /\ term = NoRenderer
    /\ own \in {[NoOwner EXCEPT !.shared = TRUE, !.made = 1, !.provAt = 1], NoOwner}

\* one Collect (collector.go 29-69): a new Metrics, the provider's slice,
\* and the slice that becomes both metrics.Network and c.prevNet
OwnCollect ==
    /\ own.collects < MaxCollects
    /\ \E r \in OwnResults(own.shared), d \in Elapse :
         /\ DoCollect(r, d)
         /\ LET structAt == own.made + 1
                curAt == IF r.net.err THEN 0
                         ELSE IF own.shared THEN own.provAt
                         ELSE At(r.net.val, own.made + 2)
                freshAt == own.made + 3
                rated == ~r.net.err /\ ~prevNet.nil
                netAt == IF r.net.err THEN 0
                         ELSE IF rated
                         THEN At(last'.res.metrics.Network,
                                 RatesAt(prevNet, prevTime, now + d, r.net.val,
                                         curAt, freshAt))
                         ELSE curAt
                writes == {structAt}
                            \cup (IF rated
                                  THEN RatesWrites(prevNet, prevTime, now + d,
                                                   r.net.val, own.prevAt, freshAt)
                                  ELSE {})
            IN  own' = [own EXCEPT
                          !.made = @ + 3,
                          !.prevAt = IF r.net.err THEN @ ELSE netAt,
                          !.snap = [at |-> structAt, net |-> netAt],
                          !.handed = FALSE,
                          !.read = IF rated
                                   THEN RatesReads(prevNet, prevTime, now + d, own.prevAt)
                                   ELSE 0,
                          !.clobbered = @ \cup (writes \cap (own.heldSnaps \cup own.heldNets)),
                          !.collects = @ + 1]
    /\ UNCHANGED <<colPc, monPc, out, closed, tick, cancelled, pending, hist, prov, run, term>>

\* the snapshot goes to the consumer (collector.go 81, 99; part_000 56)
Handoff ==
    /\ ~own.handed
    /\ own' = [own EXCEPT !.handed = TRUE,
                          !.heldSnaps = @ \cup {own.snap.at},
                          !.heldNets = @ \cup ({own.snap.net} \ {0})]
    /\ UNCHANGED <<prevNet, prevTime, now, last, colPc, monPc, out, closed, tick,
                   cancelled, pending, hist, prov, run, term>>

\* the consumer writes BytesSent of the first entry of the Network of a
\* snapshot it received; c.prevNet sees the write when it is the same array
ConsumerWrite ==
    /\ \E a \in own.heldNets, v \in Counters :
         LET hit == a = own.prevAt
             written == [prevNet EXCEPT !.elems[1].BytesSent = v]
         IN  /\ prevNet' = IF hit THEN written ELSE prevNet
             /\ own' = [own EXCEPT !.wroteAt = a,
                                   !.tampered = @ \/ (hit /\ written # prevNet)]
    /\ UNCHANGED <<prevTime, now, last, colPc, monPc, out, closed, tick,
                   cancelled, pending, hist, prov, run, term>>

NextOwn == OwnCollect \/ Handoff \/ ConsumerWrite \/ ClockAdvance

\* ------------------------------------------------------ the terminal lines
\* config.NewDefaultConfig's thresholds and the ends of the valid range
ThresholdValues == {0, 80, 85, 90, 100}

\* the config.Thresholds a renderer is constructed with: the defaults with
\* at most one of them changed
ThresholdSets ==
    {[CPU |-> c, Memory |-> 85, Disk |-> 90] : c \in ThresholdValues}
    \cup {[CPU |-> 80, Memory |-> m, Disk |-> 90] : m \in ThresholdValues}
    \cup {[CPU |-> 80, Memory |-> 85, Disk |-> d] : d \in ThresholdValues}

\* the percentages a line shows
Percents == 0..100

\* TerminalRenderer.shouldWarn (terminal.go 251-253)
shouldWarn(value, threshold) == value > threshold

\* TerminalRenderer.formatWarning (terminal.go 256-261)
formatWarning(useANSI) == IF useANSI THEN "red:WARNING" ELSE "[WARNING]"

\* TerminalRenderer.colorizeValue (terminal.go 237-248): the colour the text
\* is wrapped in, "none" when it is returned as it is; value >
\* threshold*0.8 is 5*value > 4*threshold
colorizeValue(useANSI, value, threshold) ==
    IF ~useANSI THEN "none"
    ELSE IF value > threshold THEN "red"
    ELSE IF 5 * value > 4 * threshold THEN "yellow"
    ELSE "green"

\* the usage line of a section (terminal.go 125-130, 162-167, 194-199)
UsageLine(useANSI, section, value, threshold) ==
    [section |-> section, value |-> value, threshold |-> threshold,
     warning |-> IF shouldWarn(value, threshold) THEN formatWarning(useANSI) ELSE "",
     colour |-> colorizeValue(useANSI, value, threshold)]

\* NewTerminalRenderer (terminal.go 30-39); useANSI is isTerminal(writer)
InitRender ==
    /\ InitCollector
    /\ colPc = "idle"
    /\ monPc = "idle"
    /\ out = <<>>
    /\ closed = 0
    /\ tick = FALSE
    /\ cancelled = FALSE
    /\ pending = NoCall.res.metrics
    /\ hist = NoHist
    /\ prov = NoProvider
    /\ own = NoOwner
    /\ run = NoRun
    /\ term \in {[useANSI |-> a, thresholds |-> t, line |-> <<>>] :
                    a \in BOOLEAN, t \in ThresholdSets}

\* every variable but term
NotTerm ==
    <<prevNet, prevTime, now, last, colPc, monPc, out, closed, tick, cancelled,
      pending, hist, prov, own, run>>

\* formatCPU (terminal.go 113-145): the Overall line, or a core's line
FormatCPU ==
    /\ \E v \in Percents :
         term' = [term EXCEPT !.line = UsageLine(term.useANSI, "cpu", v, term.thresholds.CPU)]
    /\ UNCHANGED NotTerm

\* formatMemory (terminal.go 148-175)
FormatMemory ==
    /\ \E v \in Percents :
         term' = [term EXCEPT !.line = UsageLine(term.useANSI, "mem", v, term.thresholds.Memory)]
    /\ UNCHANGED NotTerm

\* formatDisk (terminal.go 178-208): the usage line of one disk
FormatDisk ==
    /\ \E v \in Percents :
         term' = [term EXCEPT !.line = UsageLine(term.useANSI, "disk", v, term.thresholds.Disk)]
    /\ UNCHANGED NotTerm

NextRender == FormatCPU \/ FormatMemory \/ FormatDisk

SpecRender == InitRender /\ [][NextRender]_vars

\* ------------------------------------------------------------ runMonitor
\* 1*time.Hour in seconds (config.go 110)
MaxInterval == 3600

\* a float64 that is a number, and the one that is not
F64(n) == [nan |-> FALSE, val |-> n]

NaN == [nan |-> TRUE, val |-> 0]

\* a < b on float64: false when either side is NaN
FLess(a, b) == ~a.nan /\ ~b.nan /\ a.val < b.val

\* config.NewDefaultConfig (config.go 22-35); Interval in seconds, LogFile
\* as "a path is given"
NewDefaultConfig ==
    [Interval |-> 1,
     Thresholds |-> [CPU |-> F64(80), Memory |-> F64(85), Disk |-> F64(90)],
     LogFile |-> FALSE]

\* the values a --interval flag or a config file may give
IntervalInputs == {0, MaxInterval, MaxInterval + 1}

\* the values a threshold flag or a config file may give: strconv.ParseFloat
\* accepts "NaN"
ThresholdInputs == {F64(0 - 1), F64(101), NaN}

\* the configuration after the flags were merged over the file or the
\* defaults (root.go 65-96): the defaults with one setting changed
RunConfigs ==
    {NewDefaultConfig}
    \cup {[NewDefaultConfig EXCEPT !.Interval = i] : i \in IntervalInputs}
    \cup {[NewDefaultConfig EXCEPT !.Thresholds.CPU = t] : t \in ThresholdInputs}
    \cup {[NewDefaultConfig EXCEPT !.Thresholds.Memory = F64(101)],
          [NewDefaultConfig EXCEPT !.Thresholds.Disk = F64(0 - 1)],
          [NewDefaultConfig EXCEPT !.LogFile = TRUE]}

\* config.validateThreshold (config.go 129-134): TRUE is an error
validateThreshold(value) == FLess(value, F64(0)) \/ FLess(F64(100), value)

\* config.ValidateConfig (config.go 105-126): TRUE is an error
ValidateConfig(config) ==
    IF config.Interval <= 0 THEN TRUE
    ELSE IF config.Interval > MaxInterval THEN TRUE
    ELSE IF validateThreshold(config.Thresholds.CPU) THEN TRUE
    ELSE IF validateThreshold(config.Thresholds.Memory) THEN TRUE
    ELSE validateThreshold(config.Thresholds.Disk)

\* ctx.Err()
ctxErr == IF cancelled THEN "canceled" ELSE "nil"

\* runMonitor is entered: nothing is constructed yet. ret is what runMonitor
\* returned, errChan and sig the contents of its two channels; stop records
\* the call of mon.Stop; fails, used and awaited are history: whether a
\* Render or LogMetrics failed and a later snapshot was rendered, whether
\* the renderer or the logger was used after its Close, whether errChan
\* had a value when Stop was called
InitRun ==
    /\ InitCollector
    /\ colPc = "idle"
    /\ monPc = "idle"
    /\ out = <<>>
    /\ closed = 0
    /\ tick = FALSE
    /\ cancelled = FALSE
    /\ pending = NoCall.res.metrics
    /\ hist = NoHist
    /\ prov = NoProvider
    /\ own = NoOwner
    /\ term = NoRenderer
    /\ run = [pc |-> "start", cfg |-> NewDefaultConfig, ret |-> "none",
              renderer |-> "none", logger |-> "nil", loggerFailed |-> FALSE,
              errChan |-> <<>>, sig |-> FALSE,
              stop |-> [called |-> FALSE, logger |-> "nil", closeErr |-> FALSE,
                        logErr |-> FALSE, awaited |-> FALSE],
              fails |-> "none", used |-> FALSE]

\* every variable but run
NotRun ==
    <<prevNet, prevTime, now, last, colPc, monPc, out, closed, tick, cancelled,
      pending, hist, prov, own, term>>

\* runMonitor, lines 65-107: load, merge, validate, create the provider;
\* providerNil is a platform whose newPlatformProvider returns nil
RunConfigure ==
    /\ run.pc = "start"
    /\ \E fileErr \in BOOLEAN, cfg \in RunConfigs, providerNil \in BOOLEAN :
         run' = IF fileErr
                THEN [run EXCEPT !.pc = "returned", !.ret = "load"]
                ELSE IF ValidateConfig(cfg)
                THEN [run EXCEPT !.pc = "returned", !.ret = "invalid", !.cfg = cfg]
                ELSE IF providerNil
                THEN [run EXCEPT !.pc = "returned", !.ret = "provider", !.cfg = cfg]
                ELSE [run EXCEPT !.pc = "launch", !.cfg = cfg]
    /\ UNCHANGED NotRun

\* runMonitor, lines 110-145: the collector, the renderer, the logger (nil
\* when no file is named or the file cannot be opened), the monitor, the
\* context, the signal channel, and the goroutine running mon.Start
RunLaunch ==
    /\ run.pc = "launch"
    /\ \E openFails \in BOOLEAN :
         run' = [run EXCEPT
                   !.pc = "select",
                   !.renderer = "open",
                   !.logger = IF run.cfg.LogFile /\ ~openFails THEN "open" ELSE "nil",
                   !.loggerFailed = run.cfg.LogFile /\ openFails]
    /\ prevNet' = NilSlice
    /\ prevTime' = now
    /\ colPc' = "start"
    /\ monPc' = "recv"
    /\ UNCHANGED <<now, last, out, closed, tick, cancelled, pending, hist, prov,
                   own, term>>

\* SIGINT or SIGTERM is delivered to sigChan (root.go 138-139)
RunSignal ==
    /\ run.pc = "select"
    /\ ~run.sig
    /\ run' = [run EXCEPT !.sig = TRUE]
    /\ UNCHANGED NotRun

\* runMonitor, lines 148-160: the select on sigChan and errChan. On a
\* signal it cancels the context; on a result of Start it returns an error
\* other than context.Canceled, and goes on to mon.Stop otherwise.
MainSelect ==
    /\ run.pc = "select"
    /\ \E onSignal \in {b \in BOOLEAN : IF b THEN run.sig ELSE run.errChan # <<>>} :
         IF onSignal
         THEN /\ run' = [run EXCEPT !.pc = "await", !.sig = FALSE]
              /\ cancelled' = TRUE
         ELSE /\ run' = IF Head(run.errChan) \notin {"nil", "canceled"}
                        THEN [run EXCEPT !.pc = "returned", !.ret = "start",
                                         !.errChan = <<>>]
                        ELSE [run EXCEPT !.pc = "stop", !.errChan = <<>>,
                                         !.stop.awaited = TRUE]
              /\ cancelled' = (cancelled \/ Head(run.errChan) \notin {"nil", "canceled"})
    /\ UNCHANGED <<prevNet, prevTime, now, last, colPc, monPc, out, closed, tick,
                   pending, hist, prov, own, term>>

\* the wait for the monitor as it would be if Start's error were returned
MainAwaitReturnsErr ==
    /\ run.pc = "await"
    /\ run.errChan # <<>>
    /\ run' = IF Head(run.errChan) # "nil"
              THEN [run EXCEPT !.pc = "returned", !.ret = "start", !.errChan = <<>>]
              ELSE [run EXCEPT !.pc = "stop", !.errChan = <<>>, !.stop.awaited = TRUE]
    /\ UNCHANGED NotRun

\* the signal branch as it would be without the wait for the monitor
MainNoAwait ==
    /\ run.pc = "await"
    /\ run' = [run EXCEPT !.pc = "stop", !.stop.awaited = run.errChan # <<>>]
    /\ UNCHANGED NotRun

\* runMonitor, line 153: <-errChan, the wait for mon.Start to return
MainAwait ==
    /\ run.pc = "await"
    /\ run.errChan # <<>>
    /\ run' = [run EXCEPT !.pc = "stop", !.errChan = <<>>, !.stop.awaited = TRUE]
    /\ UNCHANGED NotRun

\* SystemMonitor.Stop (part_000 82-101) with what Clear, the renderer's
\* Close and the logger's Close return
Stop(clearErr, closeErr, logErr) ==
    [run EXCEPT
       !.pc = "returned",
       !.renderer = "closed",
       !.logger = IF closeErr \/ @ = "nil" THEN @ ELSE "closed",
       !.ret = IF closeErr THEN "renderer"
               ELSE IF run.logger # "nil" /\ logErr THEN "logger" ELSE "nil",
       !.stop = [@ EXCEPT !.called = TRUE, !.logger = run.logger,
                          !.closeErr = closeErr, !.logErr = logErr]]

\* runMonitor, lines 154 and 160: return mon.Stop(); the deferred cancel()
RunStop ==
    /\ run.pc = "stop"
    /\ \E clearErr \in BOOLEAN, closeErr \in BOOLEAN, logErr \in BOOLEAN :
         run' = Stop(clearErr, closeErr, logErr)
    /\ cancelled' = TRUE
    /\ UNCHANGED <<prevNet, prevTime, now, last, colPc, monPc, out, closed, tick,
                   pending, hist, prov, own, term>>

\* SystemMonitor.Start, lines 56-60: a snapshot is received
RunReceive ==
    /\ monPc = "recv"
    /\ Len(out) > 0
    /\ out' = Tail(out)
    /\ monPc' = "render"
    /\ hist' = [hist EXCEPT !.inChan = Tail(@),
                            !.recvs = @ + 1,
                            !.recvN = Head(hist.inChan),
                            !.recvTs = Head(out).Timestamp,
                            !.prevTs = hist.recvTs]
    /\ UNCHANGED <<prevNet, prevTime, now, last, colPc, closed, tick, cancelled,
                   pending, prov, own, run, term>>

\* where Start goes after Render when a failed Render ends the loop
AfterRenderStrict(ok) ==
    IF ~ok THEN "done" ELSE IF run.logger # "nil" THEN "log" ELSE "recv"

\* where Start goes after Render (part_000 63-77): to LogMetrics when a
\* logger is configured, to the next receive otherwise
AfterRender(ok) == IF run.logger # "nil" THEN "log" ELSE "recv"

\* SystemMonitor.Start, lines 63-68: Render, and LogError when it failed
\* and a logger is configured
RunRender ==
    /\ monPc = "render"
    /\ \E ok \in BOOLEAN :
         /\ monPc' = AfterRender(ok)
         /\ run' = [run EXCEPT
                      !.fails = IF ~ok THEN "failed"
                                ELSE IF @ = "failed" THEN "recovered" ELSE @,
                      !.used = \/ @
                               \/ run.renderer = "closed"
                               \/ ~ok /\ run.logger = "closed"]
    /\ UNCHANGED <<prevNet, prevTime, now, last, colPc, out, closed, tick,
                   cancelled, pending, hist, prov, own, term>>

\* SystemMonitor.Start, lines 71-76: LogMetrics; a failure continues
RunLog ==
    /\ monPc = "log"
    /\ \E ok \in BOOLEAN :
         run' = [run EXCEPT !.fails = IF ~ok THEN "failed" ELSE @,
                            !.used = @ \/ run.logger = "closed"]
    /\ monPc' = "recv"
    /\ UNCHANGED <<prevNet, prevTime, now, last, colPc, out, closed, tick,
                   cancelled, pending, hist, prov, own, term>>

\* runMonitor, lines 143-145: errChan <- mon.Start(ctx); Start returned nil
\* when it saw the channel closed, ctx.Err() after the wait
RunDeliver ==
    /\ monPc = "done"
    /\ run.pc # "none"
    /\ monPc' = "delivered"
    /\ run' = [run EXCEPT !.errChan = <<IF hist.eos THEN "nil" ELSE ctxErr>>]
    /\ UNCHANGED <<prevNet, prevTime, now, last, colPc, out, closed, tick,
                   cancelled, pending, hist, prov, own, term>>

RunMonitorNext ==
    \/ RunReceive \/ RunRender \/ RunLog \/ RunDeliver
    \/ MonReceiveClosed \/ MonCancelled \/ MonWaitDone

MainNext == RunConfigure \/ RunLaunch \/ MainSelect \/ MainAwait \/ RunStop

\* the clock stands still: nothing runMonitor or the monitor does reads it
NextRun == MainNext \/ RunSignal \/ RunMonitorNext \/ CollectorNext \/ TickerFire

SpecRun == InitRun /\ [][NextRun]_vars

SpecOwn == InitOwn /\ [][NextOwn]_vars
\* ============================================================ properties
\* the last cycle's snapshot, provider results and earlier rate state
Snap == last.res.metrics

Inp == last.inp

\* the last cycle's network query succeeded
NetOk == last.called /\ ~Inp.net.err

\* the fields of the last snapshot other than Network follow the partial
\* failure rule: zero where the query failed, the provider's value otherwise
PlainFieldsRule ==
    /\ Snap.CPU = (IF Inp.cpu.err THEN ZeroCPU ELSE Inp.cpu.val)
    /\ Snap.Memory = (IF Inp.mem.err THEN ZeroMemory ELSE Inp.mem.val)
    /\ Snap.Disk = (IF Inp.disk.err THEN NilSlice ELSE Inp.disk.val)

AllFourCalled ==
    /\ Len(last.res.calls) = 4
    /\ {last.res.calls[i] : i \in 1..4} = {"cpu", "mem", "disk", "net"}

\* C1 as stated: for every subset S of failing queries, Collect invokes all
\* four queries, returns a snapshot and a nil error, leaves the fields in S
\* zero and sets every field outside S to the value the provider returned.
C1_AsStated ==
    last.called =>
        /\ AllFourCalled
        /\ ~last.res.err
        /\ PlainFieldsRule
        /\ Snap.Network = (IF Inp.net.err THEN NilSlice ELSE Inp.net.val)

\* C1 amended: as C1, but a Network field outside S is the provider's
\* sequence after the rate computation: same length and order, same
\* Interface, BytesSent and BytesRecv; its SendRate and RecvRate may differ
\* from the provider's.
C1_PartialFailure ==
    last.called =>
        /\ AllFourCalled
        /\ ~last.res.err
        /\ PlainFieldsRule
        /\ IF Inp.net.err THEN Snap.Network = NilSlice
           ELSE Counts(Snap.Network).elems = Counts(Inp.net.val).elems

\* a cycle where CPU and disk fail, memory and network succeed, and the
\* rate computation has replaced the provider's rates
C1_Witness ==
    /\ last.called
    /\ Inp.cpu.err /\ Inp.disk.err /\ ~Inp.mem.err /\ ~Inp.net.err
    /\ Snap.Memory = MockMemory
    /\ Snap.Network # Inp.net.val

\* C2: once the context is cancelled, no snapshot is sent on out.
C2_NoSendAfterCancel == hist.sendsAfterCancel = 0

\* C3: out is closed exactly once on every exit path of Collector.Start, by
\* Start and by no other goroutine, never before Start has returned; no send is
\* attempted on the closed channel; the consumer's receive on the closed
\* channel observes end-of-stream.
C3_ClosedExactlyOnce ==
    /\ closed <= 1
    /\ (closed = 1) <=> (colPc \in {"exiting", "done"})
    /\ closed = 1 => hist.closer = "collector"
    /\ ~hist.sendOnClosed
    /\ hist.eos => (closed = 1 /\ monPc = "done" /\ out = <<>>)

\* Start has sent, was cancelled and closed out, and the consumer's receive
\* saw the end of the stream
C3_Witness ==
    /\ hist.sends > 0
    /\ closed = 1
    /\ colPc = "done"
    /\ hist.eos

\* C4: after the context is cancelled, Collector.Start eventually returns
\* and closes out, whichever wait is pending.
C4_CancelTerminates == cancelled ~> (colPc = "done" /\ closed = 1)

\* Start returned from a send blocked on a full channel whose consumer had
\* stopped receiving
C4_Witness ==
    /\ colPc = "done"
    /\ closed = 1
    /\ hist.exitAt = "sendFull"
    /\ monPc \in {"wait", "done"}
    /\ Len(out) = ChanCap

\* C5: after the context is cancelled, the loop of Start begins at most one
\* further Collect before Start returns.
C5_OneCollectAfterCancel == hist.collectsAfterCancel <= 1

\* the entry of the previous sample for the i-th interface of the current
\* network result (0: none)
PrevOf(i) == PrevIndex(last.prev.elems, Inp.net.val.elems[i].Interface)

CurEntries == 1..Len(Inp.net.val.elems)

\* time has passed between the previous sample and the clock reading of the
\* rate computation (the zero-elapsed cycle is the subject of C10)
TimeElapsed == last.sinceNow > last.pTime

\* C6, in a cycle where time has elapsed: for an interface present in the
\* previous and the current sample, a counter smaller than before gives a
\* rate of exactly 0 in the snapshot, and no rate is negative.
C6_RegressionZero ==
    (NetOk /\ TimeElapsed) =>
        \A i \in CurEntries :
            /\ ~IsNegative(Snap.Network.elems[i].SendRate)
            /\ ~IsNegative(Snap.Network.elems[i].RecvRate)
            /\ PrevOf(i) # 0 =>
                LET p == last.prev.elems[PrevOf(i)]
                    c == Inp.net.val.elems[i]
                IN  /\ c.BytesSent < p.BytesSent => IsZero(Snap.Network.elems[i].SendRate)
                    /\ c.BytesRecv < p.BytesRecv => IsZero(Snap.Network.elems[i].RecvRate)

\* C7: for an interface present in both samples with non-decreasing
\* counters, the rates are the counter differences divided by the snapshot's
\* timestamp minus the stored timestamp of the previous sample.
C7_RateFromTimestamps ==
    (NetOk /\ Snap.Timestamp - last.pTime > 0) =>
        \A i \in CurEntries :
            PrevOf(i) # 0 =>
                LET p == last.prev.elems[PrevOf(i)]
                    c == Inp.net.val.elems[i]
                    dt == Snap.Timestamp - last.pTime
                IN  (c.BytesSent >= p.BytesSent /\ c.BytesRecv >= p.BytesRecv) =>
                        /\ Snap.Network.elems[i].SendRate = Div(c.BytesSent - p.BytesSent, dt)
                        /\ Snap.Network.elems[i].RecvRate = Div(c.BytesRecv - p.BytesRecv, dt)

AllRatesZero ==
    \A i \in 1..Len(Snap.Network.elems) :
        /\ IsZero(Snap.Network.elems[i].SendRate)
        /\ IsZero(Snap.Network.elems[i].RecvRate)

\* C8: the first successful network collection of a fresh collector has
\* rate 0 for every interface, whatever rates the provider supplied.
C8_FirstSampleZero == (NetOk /\ ~last.hadNet) => AllRatesZero

\* C9, in a cycle where time has elapsed: when the rate state holds a
\* previous sample, an interface of the current result that is not in the
\* previous sample has rates 0, whatever rates the provider supplied.
C9_NewInterfaceZero ==
    (NetOk /\ ~last.prev.nil /\ TimeElapsed) =>
        \A i \in CurEntries :
            PrevOf(i) = 0 =>
                /\ IsZero(Snap.Network.elems[i].SendRate)
                /\ IsZero(Snap.Network.elems[i].RecvRate)

\* C10: when no time has elapsed between the previous successful network
\* sample and the current one, every interface has rates 0.
C10_ZeroElapsedZero ==
    (NetOk /\ last.hadNet /\ ~last.prev.nil /\ Snap.Timestamp = last.pTime) =>
        AllRatesZero


\* ---------------------------------------------------------------- rate state
\* a step that is one call of Collect (every call leaves its record in last)
CollectStep == last' # last

\* C11: a Collect whose network query fails leaves prevNet and prevTime as
\* they were; one whose network query succeeds makes prevNet the Network of
\* the snapshot it returns and prevTime that snapshot's Timestamp.  So the
\* rate state is always the last successful sample, however many failed
\* cycles came after it.
C11_RateStateFrame ==
    [][CollectStep =>
         IF last'.inp.net.err
         THEN prevNet' = prevNet /\ prevTime' = prevTime
         ELSE /\ prevNet' = last'.res.metrics.Network
              /\ prevTime' = last'.res.metrics.Timestamp]_vars

\* a failed cycle, later than the sample it leaves in place
C11_Witness ==
    /\ last.called /\ last.inp.net.err
    /\ ~prevNet.nil /\ Len(prevNet.elems) > 0
    /\ prevTime < Snap.Timestamp
    /\ Counts(prevNet) = last.prev /\ prevTime = last.pTime

\* ------------------------------------------------------------ the hand-off
\* the snapshots collected and not sent so far
Unsent == hist.collects - hist.sends

\* C12: the collector never drops a snapshot because the consumer is slow:
\* every snapshot Collect returned is sent before the next Collect begins,
\* the send waiting for room in the channel of capacity 1; a snapshot is
\* left unsent only while its send is waiting or when Start returned from
\* that send on cancellation.
C12_EverySnapshotSent ==
    /\ Len(out) <= ChanCap
    /\ Unsent \in {0, 1}
    /\ Unsent = 1 =>
          \/ colPc = "send"
          \/ /\ colPc \in {"exiting", "done"} /\ cancelled
             /\ hist.exitAt \in {"send", "sendFull"}
    /\ (~cancelled /\ colPc # "send") => Unsent = 0

\* the consumer is slow: a snapshot waits for room while the next tick is
\* already there, and nothing was cancelled
C12_Witness ==
    /\ colPc = "send" /\ Len(out) = ChanCap /\ tick /\ ~cancelled
    /\ hist.collects >= 2 /\ Unsent = 1

\* snapshots come out of the channel one at a time and in the order in
\* which they were collected, none missing and none twice
ReceivedInOrder ==
    /\ Len(out) <= ChanCap
    /\ hist.recvN = hist.recvs
    /\ Len(out) > 0 => Head(hist.inChan) = hist.recvN + 1

\* C13 as stated: snapshots are received in the order collected, one at a
\* time, with strictly increasing Timestamp values.
C13_StrictlyIncreasing ==
    /\ ReceivedInOrder
    /\ hist.recvs >= 2 => hist.prevTs < hist.recvTs
    /\ (Len(out) > 0 /\ hist.recvs >= 1) => hist.recvTs < Head(out).Timestamp

\* C13: snapshots are received in the order collected, one at a time, and
\* their Timestamp values never decrease; two consecutive snapshots carry
\* the same Timestamp when the clock read the same at both Collects.
C13_NonDecreasing ==
    /\ ReceivedInOrder
    /\ hist.recvs >= 2 => hist.prevTs <= hist.recvTs
    /\ (Len(out) > 0 /\ hist.recvs >= 1) => hist.recvTs <= Head(out).Timestamp

\* three snapshots received, the last later than the one before
C13_Witness ==
    /\ hist.recvs >= 3 /\ hist.recvN = hist.recvs
    /\ hist.prevTs < hist.recvTs

\* C14: Start runs its first Collect without waiting for a tick, and after
\* that one Collect for each tick it takes from the ticker: while Start
\* runs, the Collects are one more than the ticks taken, the ticks taken
\* being those delivered less the one still waiting.
C14_OneCollectPerTick ==
    /\ colPc = "start" => hist.collects = 0
    /\ colPc \in {"send", "loop"} =>
          hist.collects = 1 + hist.fired - (IF tick THEN 1 ELSE 0)
    /\ colPc = "done" => hist.collects <= 1 + hist.fired
    /\ colPc = "send" => pending = Snap

\* three Collects made on two ticks: the first one without a tick
C14_Witness ==
    /\ colPc = "send" /\ ~tick
    /\ hist.collects = 3 /\ hist.fired = 2

\* ------------------------------------------------------ provider results
\* the provider's latest call returned a value
Returned(name) == prov.called = name /\ ~prov.res.err

\* a float64 within [0, 100]
InRange(f) == 0 <= f.num /\ f.num <= 100 * f.den

\* C15: every MemoryStats and every DiskStats a native provider returns has
\* Total == Used + Available, whatever the raw counters, reserved blocks
\* (Bavail < Bfree) included.
C15_TotalIsUsedPlusAvailable ==
    /\ Returned("mem") =>
         prov.res.val.Total = TAdd(prov.res.val.Used, prov.res.val.Available)
    /\ Returned("disk") =>
         \A i \in 1..Len(prov.res.val.elems) :
            prov.res.val.elems[i].Total
              = TAdd(prov.res.val.elems[i].Used, prov.res.val.elems[i].Available)

\* C16: CalculatePercentage(used, total) is 0 when total is 0 and is
\* used/total*100, within [0, 100], when 0 <= used <= total and total > 0;
\* every Percent of a MemoryStats or DiskStats a provider returns lies in
\* [0, 100].
C16_PercentInRange ==
    /\ prov.called = "percentage" =>
         /\ prov.inp.total = 0 => prov.res = Float(0)
         /\ (prov.inp.total > 0 /\ prov.inp.used <= prov.inp.total) =>
              /\ prov.res.num * prov.inp.total = prov.inp.used * 100 * prov.res.den
              /\ InRange(prov.res)
    /\ Returned("mem") => InRange(prov.res.val.Percent)
    /\ Returned("disk") =>
         \A i \in 1..Len(prov.res.val.elems) : InRange(prov.res.val.elems[i].Percent)

\* a provider returned a memory half in use
C16_Witness ==
    /\ Returned("mem")
    /\ prov.res.val.Total > 0
    /\ prov.res.val.Percent = Float(50)

\* C17: every CPUStats a provider returns has Overall and each PerCore entry
\* within [0, 100], for any previous and current counters, a counter that
\* went down included.
C17_CPUInRange ==
    Returned("cpu") =>
      /\ InRange(prov.res.val.Overall)
      /\ \A i \in 1..Len(prov.res.val.PerCore) : InRange(prov.res.val.PerCore[i])

\* the logical cores of the reading a GetCPUStats call took
CoresRead == IF prov.os = "linux" THEN Len(prov.inp.val.elems) - 1
             ELSE prov.inp.val.ncpu

\* the counters of that reading, as the provider keeps them
CountersRead == IF prov.os = "linux" THEN prov.inp.val
                ELSE Slice(<<prov.inp.val.times>>)

\* C18: a GetCPUStats call that finds no baseline and reads the counters
\* returns no error, Overall 0.0 and one 0.0 in PerCore for each logical
\* core, and keeps the counters it read as the baseline.
C18_FirstCallZeros ==
    (prov.called = "cpu" /\ prov.base.nil /\ ~prov.inp.err) =>
      /\ ~prov.res.err
      /\ prov.res.val.Overall = Float(0)
      /\ Len(prov.res.val.PerCore) = CoresRead
      /\ \A i \in 1..Len(prov.res.val.PerCore) : prov.res.val.PerCore[i] = Float(0)
      /\ prov.prevCPUTimes = CountersRead

\* a first call on a machine of two cores, the counters not all zero
C18_Witness ==
    /\ Returned("cpu") /\ prov.base.nil
    /\ Len(prov.res.val.PerCore) = 2
    /\ ~prov.prevCPUTimes.nil
    /\ prov.prevCPUTimes.elems[1].user > 0

\* -------------------------------------------------------------- ownership
\* C19: after a snapshot is handed over the collector keeps no reference to
\* storage reachable from it: c.prevNet does not share its backing array
\* with the Network of a snapshot the consumer holds, and no write of the
\* consumer to a snapshot it received changes the sample the next rates are
\* computed from.
C19_NoSharedStorage ==
    /\ own.prevAt \notin own.heldNets
    /\ ~own.tampered

\* C20: no Collect writes to a snapshot already handed to the consumer,
\* neither to its fields nor to the elements of its Network; the rate
\* computation reads the previous sample and writes a new array.
C20_PublishedNotWritten ==
    /\ own.clobbered = {}
    /\ own.snap.at \notin own.heldSnaps \/ own.handed

\* a Collect computed rates from a sample the consumer already holds
C20_Witness ==
    /\ own.read \in own.heldNets
    /\ own.snap.net \notin own.heldNets /\ own.snap.net # 0
    /\ ~own.handed

\* ----------------------------------------------------------- identity keys
\* C21: within the result of one query the identity keys are unique: no two
\* DiskStats of a GetDiskStats result share a Mountpoint, no two
\* NetworkStats of a GetNetworkStats result share an Interface, whatever the
\* OS enumerates (repeated lines included), and "lo" never appears.
C21_UniqueKeys ==
    /\ Returned("disk") =>
         \A i, j \in 1..Len(prov.res.val.elems) :
            i # j => prov.res.val.elems[i].Mountpoint # prov.res.val.elems[j].Mountpoint
    /\ Returned("net") =>
         /\ \A i, j \in 1..Len(prov.res.val.elems) :
               i # j => prov.res.val.elems[i].Interface # prov.res.val.elems[j].Interface
         /\ \A i \in 1..Len(prov.res.val.elems) : prov.res.val.elems[i].Interface # "lo"

\* ------------------------------------------------- SystemMonitor.Start
\* C24: SystemMonitor.Start returns only after the collector goroutine has
\* completed, on the return after cancellation and on the return after
\* the channel was seen closed.
C24_ReturnsAfterCollector == monPc = "done" => colPc = "done"

\* C25: once the context is cancelled, SystemMonitor.Start eventually
\* returns, in every interleaving of the collector and the monitor: the
\* wait for the collector goroutine cannot deadlock.
C25_StartTerminates == cancelled ~> (monPc = "done")

\* Start returned from m.wg.Wait() although the collector had been blocked
\* on a send to the full channel that nobody would receive from any more
C25_Witness ==
    /\ monPc = "done"
    /\ ~hist.eos
    /\ hist.exitAt = "sendFull"
    /\ Len(out) = ChanCap

\* ------------------------------------------------------ the rate fields
\* C30: the rate computation changes the rate fields only: the Network of
\* a snapshot has the length and the order of the provider's result, and
\* each entry keeps the provider's Interface, BytesSent and BytesRecv.
C30_RatesOnlyChangeRates ==
    NetOk =>
        /\ Len(Snap.Network.elems) = Len(Inp.net.val.elems)
        /\ \A i \in 1..Len(Inp.net.val.elems) :
              /\ Snap.Network.elems[i].Interface = Inp.net.val.elems[i].Interface
              /\ Snap.Network.elems[i].BytesSent = Inp.net.val.elems[i].BytesSent
              /\ Snap.Network.elems[i].BytesRecv = Inp.net.val.elems[i].BytesRecv

\* the rates of two interfaces were computed from moved counters and differ
\* from the provider's
C30_Witness ==
    /\ NetOk
    /\ Len(Inp.net.val.elems) = 2
    /\ \A i \in 1..2 : Snap.Network.elems[i].SendRate # Inp.net.val.elems[i].SendRate
    /\ Snap.Network.elems[1].Interface # Snap.Network.elems[2].Interface

\* -------------------------------------------------- warnings and colours
\* C28: for a value v and a threshold t in [0,100] the terminal renderer
\* shows the WARNING indicator exactly when v > t, and colours the line
\* red when v > t, yellow when 0.8*t <= v <= t, green when v < 0.8*t.
C28_WarningAndColour ==
    term.line # <<>> =>
        LET v == term.line.value
            t == term.line.threshold
        IN  /\ (term.line.warning # "") <=> (v > t)
            /\ term.line.colour = (IF v > t THEN "red"
                                   ELSE IF 5 * v >= 4 * t THEN "yellow"
                                   ELSE "green")

\* ------------------------------------------------------------ runMonitor
\* the monitor was created and its Start launched
Launched == run.pc # "none" /\ colPc # "idle"

\* a threshold is a number of [0, 100]
InPercentRange(f) == ~f.nan /\ 0 <= f.val /\ f.val <= 100

\* C22: runMonitor starts the monitor only after the merged configuration
\* passed ValidateConfig (0 < interval <= 1 hour, each threshold in
\* [0, 100]) and the provider was created; when either fails it returns the
\* error and no Collect is ever performed.
C22_StartsOnlyIfValid ==
    /\ Launched =>
         /\ 0 < run.cfg.Interval /\ run.cfg.Interval <= MaxInterval
         /\ InPercentRange(run.cfg.Thresholds.CPU)
         /\ InPercentRange(run.cfg.Thresholds.Memory)
         /\ InPercentRange(run.cfg.Thresholds.Disk)
    /\ run.pc # "none" /\ run.ret \in {"load", "invalid", "provider"} =>
         /\ hist.collects = 0
         /\ colPc = "idle" /\ monPc = "idle"

\* C23: cancellation is not an application error: Collector.Start returns
\* the context's cancellation error when it stops, and runMonitor, after a
\* signal or after Start returned nil or context.Canceled, returns the
\* result of mon.Stop, which is nil when the cleanup succeeds.
C23_CancelIsSuccess ==
    /\ colPc \in {"exiting", "done"} => ctxErr = "canceled"
    /\ Launched /\ run.pc = "returned" =>
         /\ run.stop.called
         /\ run.ret \in {"nil", "renderer", "logger"}
         /\ ~run.stop.closeErr /\ ~(run.stop.logger # "nil" /\ run.stop.logErr)
               => run.ret = "nil"

\* after a signal Start returned context.Canceled from its wait, having
\* received snapshots, and runMonitor returned nil
C23_Witness ==
    /\ Launched /\ run.pc = "returned"
    /\ run.ret = "nil"
    /\ hist.recvs > 0 /\ ~hist.eos
    /\ run.stop.logger = "open"

\* C26: when a logger is configured, every execution of SystemMonitor.Stop
\* reaches logger.Close, whatever the renderer's Clear and Close return.
C26_LoggerClosedOnStop ==
    (run.pc # "none" /\ run.stop.called /\ run.stop.logger # "nil")
        => run.logger = "closed"

\* C27: a failure of Render or of LogMetrics never ends the monitoring:
\* Start goes on to the next receive; and a file logger that cannot be
\* created leaves runMonitor running without a logger.
C27_FailuresDoNotStop ==
    [][/\ monPc \in {"render", "log"} => monPc' \in {"render", "log", "recv"}
       /\ (run.pc # "none" /\ run.pc = "launch") =>
             /\ monPc' \in {"idle", "recv"}
             /\ run'.pc \in {"launch", "select"}
             /\ run'.loggerFailed => run'.logger = "nil"]_vars

\* the log file could not be opened, a Render failed, and the snapshot
\* after it was received and rendered
C27_Witness ==
    /\ run.pc # "none" /\ run.loggerFailed
    /\ run.fails = "recovered"
    /\ hist.recvs >= 2

\* C29: the renderer and the logger are never used after they were
\* closed: Stop runs only after Start has returned, so no Render,
\* LogMetrics or LogError follows or overlaps a Close.
C29_NoUseAfterClose ==
    run.pc # "none" =>
        /\ ~run.used
        /\ run.pc = "stop" \/ run.stop.called =>
              /\ run.stop.awaited
              /\ monPc = "delivered"

\* both were used, Start returned, and Stop closed them
C29_Witness ==
    /\ run.pc # "none" /\ run.stop.called
    /\ run.renderer = "closed" /\ run.logger = "closed"
    /\ hist.recvs > 0
    /\ run.fails = "failed"

====
